---------------------------- MODULE Spec2Model ----------------------------
(***************************************************************************)
(* A model of pkg/nodestatus/status.go: the status request (Status), the   *)
(* BIRD query (printBIRDPeers), the response scanner (scanBIRDPeers), the  *)
(* status-line decoder (bgpPeer.unmarshalBIRD), the process matcher        *)
(* (psContains) and the GoBGP query (printGoBGPPeers).                     *)
(*                                                                         *)
(* Strings are TLA+ strings; TLC evaluates Len, SubSeq and \o on them, so  *)
(* the Go string functions are modelled character by character.            *)
(***************************************************************************)
EXTENDS Integers, Sequences, FiniteSets, TLC

(***************************************************************************)
(* Bounds of the model.                                                    *)
(***************************************************************************)
\* Lines the scan in isolation (SpecScan) may read before the model stops
\* feeding it.
MaxLines == 4
\* Lines one scan of a whole status request (Spec) may read.
MaxFeed == 2
\* Longest silence, in seconds, the daemon may leave before a line.
MaxGap == 3
\* Neighbours one GoBGP listing may return.
MaxNeighbors == 2
\* Characters after the prefix of a peer name, where the decoder is fed
\* names of its own (SpecDecode).
MaxToken == 3
\* Whole days a session of SpecUptime has been up, or will have been (ten
\* times as many are tried too, for a day count of two digits).
MaxDays == 2

(***************************************************************************)
(* Go string functions.                                                    *)
(***************************************************************************)
\* strings.HasPrefix(s, prefix)
HasPrefix(s, prefix) ==
    /\ Len(s) >= Len(prefix)
    /\ SubSeq(s, 1, Len(prefix)) = prefix

\* The slice expression s[k:] is in range iff k <= len(s); otherwise the Go
\* runtime panics ("slice bounds out of range").
SliceInRange(s, k) == k <= Len(s)

\* s[k:] for an in-range k.
SliceFrom(s, k) == SubSeq(s, k + 1, Len(s))

\* unicode.IsSpace on the characters a line can hold (bufio.ScanLines has
\* already removed "\n" and a trailing "\r").
IsSpace(c) == c \in {" ", "\t", "\r", "\n"}

\* strings.Fields(s): the maximal runs of non-space characters, in order.
RECURSIVE FieldsFrom(_, _, _)
FieldsFrom(s, i, cur) ==
    IF i > Len(s)
    THEN IF cur = "" THEN <<>> ELSE <<cur>>
    ELSE IF IsSpace(SubSeq(s, i, i))
         THEN IF cur = ""
              THEN FieldsFrom(s, i + 1, "")
              ELSE <<cur>> \o FieldsFrom(s, i + 1, "")
         ELSE FieldsFrom(s, i + 1, cur \o SubSeq(s, i, i))

Fields(s) == FieldsFrom(s, 1, "")

\* strings.Replace(s, old, new, 1): only the first old is replaced.
RECURSIVE ReplaceAll_First(_, _, _)
ReplaceAll_First(s, old, new) ==
    IF s = "" THEN ""
    ELSE IF SubSeq(s, 1, 1) = old THEN new \o SubSeq(s, 2, Len(s))
    ELSE SubSeq(s, 1, 1) \o ReplaceAll_First(SubSeq(s, 2, Len(s)), old, new)

\* strings.Replace(s, old, new, -1) for a one-character old.
RECURSIVE ReplaceAll(_, _, _)
ReplaceAll(s, old, new) ==
    IF s = "" THEN ""
    ELSE (IF SubSeq(s, 1, 1) = old THEN new ELSE SubSeq(s, 1, 1))
         \o ReplaceAll(SubSeq(s, 2, Len(s)), old, new)

\* strings.Join(elems, sep)
RECURSIVE Join(_, _)
Join(elems, sep) ==
    IF elems = <<>> THEN ""
    ELSE IF Len(elems) = 1 THEN elems[1]
    ELSE elems[1] \o sep \o Join(Tail(elems), sep)

\* Whether s holds a line feed, which `.` of a Go regexp does not match.
RECURSIVE HasNewline(_)
HasNewline(s) ==
    IF s = "" THEN FALSE
    ELSE SubSeq(s, 1, 1) = "\n" \/ HasNewline(SubSeq(s, 2, Len(s)))

(***************************************************************************)
(* The peer-name grammar and the status-line decoder.                      *)
(***************************************************************************)
\* The alternatives of bgpPeerRegex, in the order the regexp tries them.
PeerKinds == <<"Global", "Node", "Mesh">>

\* bgpPeerRegex.FindStringSubmatch(name) for ^(Global|Node|Mesh)_(.+)$ :
\* <<whole match, kind, rest>>, or <<>> when the name does not match.
bgpPeerRegex(name) ==
    LET hits == {k \in 1..Len(PeerKinds) :
                    /\ HasPrefix(name, PeerKinds[k] \o "_")
                    /\ Len(name) > Len(PeerKinds[k]) + 1
                    /\ ~HasNewline(name)}
    IN  IF hits = {} THEN <<>>
        ELSE LET k == CHOOSE h \in hits : \A g \in hits : h <= g
             IN  <<name, PeerKinds[k], SliceFrom(name, Len(PeerKinds[k]) + 1)>>

\* bgpTypeMap: the display type of each kind the peer name can carry.
bgpTypeMap ==
    [k \in {"Global", "Mesh", "Node"} |->
        CASE k = "Global" -> "global"
          [] k = "Mesh"   -> "node-to-node mesh"
          [] k = "Node"   -> "node specific"]

\* birdTimeOut, in seconds.
birdTimeOut == 2

\* birdExpectedHeadings
birdExpectedHeadings == <<"name", "proto", "table", "state", "since", "info">>

\* The zero value of bgpPeer.
ZeroPeer ==
    [PeerIP |-> "", PeerType |-> "", State |-> "", Since |-> "",
     BGPState |-> "", Info |-> ""]

\* bgpPeer.unmarshalBIRD(line, ipSep) on a zero bgpPeer: whether the line
\* decoded, and the peer as the call leaves it.  (A call that fails leaves a
\* peer the scanner drops, so its fields are given as the zero value.)
unmarshalBIRD(line, ipSep) ==
    LET columns == Fields(line)
        sm == IF Len(columns) >= 1 THEN bgpPeerRegex(columns[1]) ELSE <<>>
    IN  IF Len(columns) < 6 THEN [ok |-> FALSE, peer |-> ZeroPeer]
        ELSE IF columns[2] # "BGP" THEN [ok |-> FALSE, peer |-> ZeroPeer]
        ELSE IF Len(sm) # 3 THEN [ok |-> FALSE, peer |-> ZeroPeer]
        ELSE IF sm[2] \notin DOMAIN bgpTypeMap
             THEN [ok |-> FALSE, peer |-> ZeroPeer]
        ELSE [ok |-> TRUE,
              peer |-> [PeerIP |-> ReplaceAll(sm[3], "_", ipSep),
                        PeerType |-> bgpTypeMap[sm[2]],
                        State |-> columns[4],
                        Since |-> columns[5],
                        BGPState |-> columns[6],
                        Info |-> IF Len(columns) > 6
                                 THEN Join(SubSeq(columns, 7, Len(columns)), " ")
                                 ELSE ""]]

\* A scanner that takes any headings for the expected ones.
HeadingsMatch_Any(f) == TRUE

\* strings.Fields(str[5:]) equals birdExpectedHeadings (reflect.DeepEqual).
HeadingsMatch(f) == f = birdExpectedHeadings

\* The errors scanBIRDPeers creates, and the ones the connection produces.
ErrHeader == "unknown BIRD table output format"
ErrLine == "unexpected output line from BIRD"
ErrTimeout == "i/o timeout"
ErrRead == "connection reset by peer"
ErrDial == "connect: no such file or directory"
ErrWrite == "write: broken pipe"

\* A scanner that hands back the accumulated peers with a parse error.
ErrorPeers_Kept(peers) == peers

\* What a terminal parse error returns in place of the accumulated peers.
ErrorPeers(peers) == <<>>

\* A scanner that decodes the data rows and keeps none.
AppendRow_Dropped(peers, row) == peers

\* What a data row makes of the accumulated peers: the peer is appended
\* if unmarshalBIRD decoded the row.
AppendRow(peers, row) == IF row.ok THEN Append(peers, row.peer) ELSE peers

\* A scanner that takes the 0000 line for one more marker and reads on.
SentinelBranch_ReadsOn == "ready"

\* The branch of the dispatch a line beginning with "0000" takes.
SentinelBranch == "break"

\* The dispatch of the loop body of scanBIRDPeers on the prefix of the line
\* str: the branch taken ("break" out of the loop, "ready", "header",
\* a data "row", "bad header", "bad line", or "panic" on an out-of-range
\* slice) and, for a data row, what unmarshalBIRD made of it.
dispatch(str, ipSep) ==
    LET none == [ok |-> FALSE, peer |-> ZeroPeer]
    IN  IF HasPrefix(str, "0000") THEN [branch |-> SentinelBranch, row |-> none]
        ELSE IF HasPrefix(str, "0001") THEN [branch |-> "ready", row |-> none]
        ELSE IF HasPrefix(str, "2002")
             THEN IF ~SliceInRange(str, 5) THEN [branch |-> "panic", row |-> none]
                  ELSE IF ~HeadingsMatch(Fields(SliceFrom(str, 5)))
                       THEN [branch |-> "bad header", row |-> none]
                       ELSE [branch |-> "header", row |-> none]
        ELSE IF HasPrefix(str, "1002")
             THEN IF ~SliceInRange(str, 5) THEN [branch |-> "panic", row |-> none]
                  ELSE [branch |-> "row",
                        row |-> unmarshalBIRD(SliceFrom(str, 5), ipSep)]
        ELSE IF HasPrefix(str, " ")
             THEN [branch |-> "row", row |-> unmarshalBIRD(SliceFrom(str, 1), ipSep)]
        ELSE [branch |-> "bad line", row |-> none]

\* The address separator scanBIRDPeers picks for an IP version.
IpSep(v) == IF v = "6" THEN ":" ELSE "."


(***************************************************************************)
(* Process matching.                                                       *)
(***************************************************************************)
\* The inner loop of psContains over one process's command line.
cmdMatches(proc, cmds) ==
    \E i \in 1..Len(proc) : i <= Len(cmds) /\ cmds[i] = proc[i]

\* psContains(proc, procList): a process is [cmds, err], err being the
\* failure of CmdlineSlice.
psContains(proc, procList) ==
    \E k \in 1..Len(procList) :
        /\ ~procList[k].err
        /\ cmdMatches(proc, procList[k].cmds)

(***************************************************************************)
(* The GoBGP path: duration formatting and neighbour mapping.              *)
(***************************************************************************)
DecDigits == <<"0", "1", "2", "3", "4", "5", "6", "7", "8", "9">>

\* fmt.Sprintf("%d", n) for n >= 0.
RECURSIVE Dec(_)
Dec(n) == IF n < 10 THEN DecDigits[n + 1]
          ELSE Dec(n \div 10) \o DecDigits[(n % 10) + 1]

\* fmt.Sprintf("%02d", n) for n >= 0.
Dec02(n) == IF n < 10 THEN "0" \o Dec(n) ELSE Dec(n)

\* A formatTimedelta that keeps the sign it computes.
formatTimedelta_Signed(d) ==
    LET u     == IF d < 0 THEN -d ELSE d
        hms   == Dec02((u \div 3600) % 24) \o ":" \o Dec02((u \div 60) % 60)
                 \o ":" \o Dec02(u % 60)
        days  == (u \div 3600) \div 24
    IN  (IF d < 0 THEN "-" ELSE "")
        \o (IF days = 0 THEN hms ELSE Dec(days) \o "d " \o hms)

\* formatTimedelta(d).  u := uint64(d), negated (modulo 2^64) when d < 0, is
\* the magnitude of d for every int64 d.
formatTimedelta(d) ==
    LET u     == IF d < 0 THEN -d ELSE d
        secs  == u % 60
        mins  == (u \div 60) % 60
        hours == (u \div 3600) % 24
        days  == (u \div 3600) \div 24
        hms   == Dec02(hours) \o ":" \o Dec02(mins) \o ":" \o Dec02(secs)
    IN  IF days = 0 THEN hms ELSE Dec(days) \o "d " \o hms

LowerLetters == "abcdefghijklmnopqrstuvwxyz"
UpperLetters == "ABCDEFGHIJKLMNOPQRSTUVWXYZ"

\* unicode.ToTitle on an ASCII character.
ToTitle(c) ==
    LET at == {k \in 1..Len(LowerLetters) : SubSeq(LowerLetters, k, k) = c}
    IN  IF at = {} THEN c
        ELSE LET k == CHOOSE j \in at : TRUE IN SubSeq(UpperLetters, k, k)

IsLetter(c) ==
    \E k \in 1..Len(LowerLetters) :
        c = SubSeq(LowerLetters, k, k) \/ c = SubSeq(UpperLetters, k, k)

\* strings.Title(s) on ASCII: the first letter of every word in title case.
RECURSIVE TitleFrom(_, _, _)
TitleFrom(s, i, prevLetter) ==
    IF i > Len(s) THEN ""
    ELSE LET c == SubSeq(s, i, i)
         IN  (IF prevLetter THEN c ELSE ToTitle(c))
             \o TitleFrom(s, i + 1, IsLetter(c))

Title(s) == TitleFrom(s, 1, FALSE)

\* One pass of the neighbour loop of printGoBGPPeers: the peers after the
\* neighbour n, read at Unix time unixNow.
gobgpAppend(peers, n, unixNow) ==
    LET sessionState == Title(n.SessionState)
        t == IF sessionState = "Established" THEN n.Uptime ELSE n.Downtime
        timeStr == IF n.Uptime # 0 THEN formatTimedelta(unixNow - t)
                   ELSE "never"
        sm == bgpPeerRegex(n.Description)
    IN  IF Len(sm) # 3 THEN peers
        ELSE IF sm[2] \notin DOMAIN bgpTypeMap THEN peers
        ELSE Append(peers, [PeerIP |-> n.NeighborAddress,
                            PeerType |-> bgpTypeMap[sm[2]],
                            State |-> n.AdminState,
                            Since |-> timeStr,
                            BGPState |-> sessionState,
                            Info |-> ""])

\* The neighbour loop of printGoBGPPeers over the whole listing.
RECURSIVE gobgpPeers(_, _)
gobgpPeers(neighbors, unixNow) ==
    IF neighbors = <<>> THEN <<>>
    ELSE gobgpAppend(gobgpPeers(SubSeq(neighbors, 1, Len(neighbors) - 1), unixNow),
                     neighbors[Len(neighbors)], unixNow)

(***************************************************************************)
(* The environment: the host the request runs on, and what BIRD sends.     *)
(***************************************************************************)
Proc(cmds) == [cmds |-> cmds, err |-> FALSE]
Gone(cmds) == [cmds |-> cmds, err |-> TRUE]

Felix == Proc(<<"calico-node", "-felix">>)
OldFelix == Proc(<<"calico-felix">>)
Confd == Proc(<<"calico-node", "-confd">>)
Bird == Proc(<<"bird", "-R", "-s", "/var/run/calico/bird.ctl">>)
Bird6 == Proc(<<"bird6", "-R", "-s", "/var/run/calico/bird6.ctl">>)
GoBGPd == Proc(<<"calico-bgp-daemon">>)

\* The process tables a request may find, with whether process.Processes()
\* also returned an error.
Hosts ==
    {[processes |-> <<>>, procsErr |-> FALSE],
     [processes |-> <<>>, procsErr |-> TRUE],
     [processes |-> <<Proc(<<"sshd">>), Confd>>, procsErr |-> FALSE],
     [processes |-> <<Felix>>, procsErr |-> FALSE],
     [processes |-> <<Felix, Bird>>, procsErr |-> FALSE],
     [processes |-> <<Felix, Bird6>>, procsErr |-> FALSE],
     [processes |-> <<Felix, Bird, Bird6>>, procsErr |-> FALSE],
     [processes |-> <<OldFelix, Gone(<<"bird">>), Bird6, GoBGPd>>,
      procsErr |-> FALSE],
     [processes |-> <<Felix, GoBGPd>>, procsErr |-> TRUE]}

\* os.Getuid() of the request's process.
Uids == {0, 1000}

\* Lines that leave the scan running.
FlowLines ==
    {"0001 BIRD 1.5.0 ready.",
     "2002-name     proto    table    state  since       info",
     "1002-kernel1  Kernel   master   up     2016-11-21",
     "1002-Mesh_172_17_8_102 BGP master up 2016-11-21 Established",
     " Global_fd80__2 BGP master start 2016-11-22 Active Socket: refused",
     " device1 Device master up 2016-11-21 x"}

\* Lines that end the scan.
EndLines ==
    {"0000 ",
     "2002-name proto state table since info",
     "2002",
     "1002",
     "",
     "8001 Reply too long"}

\* The lines the daemon may send.
Lines == FlowLines \cup EndLines

\* dispatch, tabulated over the lines the daemon may send.
Dispatched ==
    LET at(v) == {<<str, dispatch(str, IpSep(v))>> : str \in Lines}
    IN  [v \in {"4", "6"} |-> at(v)]

DispatchOf(str, v) ==
    IF str \in Lines
    THEN (CHOOSE e \in Dispatched[v] : e[1] = str)[2]
    ELSE dispatch(str, IpSep(v))

\* One pass of the loop body of scanBIRDPeers over the line str of a scan
\* for IP version v, with the peers accumulated so far: what the pass does
\* next ("continue" with the loop, "break" out of it, "return" an error, or
\* "panic"), the accumulated peers after it, and the error it returns.
scanStep(str, v, peers) ==
    LET d == DispatchOf(str, v)
    IN  CASE d.branch = "break" ->
               [kind |-> "break", peers |-> peers, err |-> ""]
          [] d.branch \in {"ready", "header"} ->
               [kind |-> "continue", peers |-> peers, err |-> ""]
          [] d.branch = "row" ->
               [kind |-> "continue",
                peers |-> AppendRow(peers, d.row),
                err |-> ""]
          [] d.branch = "bad header" ->
               [kind |-> "return", peers |-> ErrorPeers(peers), err |-> ErrHeader]
          [] d.branch = "bad line" ->
               [kind |-> "return", peers |-> ErrorPeers(peers), err |-> ErrLine]
          [] d.branch = "panic" ->
               [kind |-> "panic", peers |-> peers, err |-> ""]

\* time.Now() of a GoBGP query, as Unix seconds.
UnixNow == 1479686400

\* Neighbours the GoBGP daemon may list.
Neighbors ==
    {[Description |-> "Mesh_10_0_0_1", NeighborAddress |-> "10.0.0.1",
      AdminState |-> "up", SessionState |-> "established",
      Uptime |-> UnixNow - 3661, Downtime |-> 0],
     [Description |-> "Global_fd80__2", NeighborAddress |-> "fd80::2",
      AdminState |-> "down", SessionState |-> "active",
      Uptime |-> UnixNow - 180000, Downtime |-> UnixNow - 90000],
     [Description |-> "uplink", NeighborAddress |-> "10.0.0.9",
      AdminState |-> "up", SessionState |-> "idle",
      Uptime |-> 0, Downtime |-> 0]}

RECURSIVE SeqsUpTo(_, _)
SeqsUpTo(S, n) ==
    IF n = 0 THEN {<<>>}
    ELSE LET shorter == SeqsUpTo(S, n - 1)
         IN  shorter \cup {Append(q, e) : q \in shorter, e \in S}

(***************************************************************************)
(* The state of one status request.                                        *)
(***************************************************************************)
VARIABLES
    pc,         \* where the request stands
    uid,        \* os.Getuid()
    enumerated, \* whether the request has called process.Processes()
    processes,  \* the process table process.Processes() returns
    procsErr,   \* whether process.Processes() also returned an error
    out,        \* what has been written to the http.ResponseWriter
    tables,     \* the IP versions printPeers rendered a table for
    queries,    \* the peer queries run so far, each with its outcome
    ipv,        \* the IP version of the current query
    conn,       \* the connection c: "none", "open" or "closed"
    dials,      \* the net.Dial calls of the current query, with their result
    written,    \* the c.Write calls of the current query
    neighbors,  \* the neighbours the GoBGP client listed to the current query
    stream,     \* the line stream of the current scan: "none", "open",
                \* "closed" (the daemon closed it), "silent" (the read
                \* timed out) or "failed" (the read failed otherwise)
    now,        \* the clock, in seconds since the current query began
    deadline,   \* the read deadline set on the connection
    lastLine,   \* when the scan began or last finished a line
    consumed,   \* the lines scanner.Scan() has returned in the current scan
    peers,      \* the local peers of scanBIRDPeers
    ret         \* what scanBIRDPeers returned

vars == <<pc, uid, enumerated, processes, procsErr, out, tables, queries, ipv,
          conn, dials, written, neighbors, stream, now, deadline, lastLine,
          consumed, peers, ret>>

hostVars == <<uid, processes, procsErr>>
queryVars == <<ipv, conn, dials, written, neighbors>>
scanVars == <<stream, now, deadline, lastLine, consumed, peers, ret>>

\* scanBIRDPeers has not returned.
NoRet == [done |-> FALSE, peers |-> <<>>, err |-> ""]

Returned(ps, err) == [done |-> TRUE, peers |-> ps, err |-> err]

\* Whether the request saw a process with the leading arguments proc.
Sees(proc) == psContains(proc, processes)

PrimaryPath(v) == "/var/run/calico/bird" \o (IF v = "6" THEN "6" ELSE "") \o ".ctl"
FallbackPath(v) == "/var/run/bird/bird" \o (IF v = "6" THEN "6" ELSE "") \o ".ctl"

\* The outcome of the latest query becomes o.
Outcome(o) == [queries EXCEPT ![Len(queries)].outcome = o]

\* A Status that goes on to the GoBGP queries after the BIRD ones.
AfterBird_ThenGoBGP(v) == IF v = "4" THEN "Bird6" ELSE "GoBGP4"

\* Where Status goes on when printBIRDPeers(w, v) returns.
AfterBird(v) == IF v = "4" THEN "Bird6" ELSE "Finish"

\* A printBIRDPeers that does not close the connection.
DeferredClose_Leak(c) == c

\* The deferred c.Close() of printBIRDPeers.
DeferredClose(c) == "closed"

\* The read deadline conn.SetReadDeadline(time.Now().Add(birdTimeOut)) sets
\* when called at time t.
ReadDeadline(t) == t + birdTimeOut

\* A scanner that sets the deadline once, before the loop, and never again.
ReArm_Never(t, old) == old

\* The deadline in force once a pass of the loop has finished at time t.
ReArm(t, old) == ReadDeadline(t)

\* A printBIRDPeers that dials the primary path again when it has failed.
AfterPrimaryFailure_Retry == "Dial"

\* Where printBIRDPeers goes on when the primary net.Dial has failed.
AfterPrimaryFailure == "DialFallback"

\* A Status that serves every user.
enforceRoot_Anyone(u) == ""

\* enforceRoot(), for os.Getuid() = u: the text of the error, "" for nil.
enforceRoot(u) ==
    IF u # 0 THEN "Need super user privileges: Operation not permitted"
    ELSE ""

\* A query that renders whatever it has, an empty sequence included.
NoPeers_Never(ps) == FALSE

\* The test len(peers) == 0 that precedes printPeers(peers).
NoPeers(ps) == Len(ps) = 0

\* A printBIRDPeers that takes only a parse error for a failed scan.
ScanFailed_ParseOnly(err) == err \in {ErrHeader, ErrLine}

\* The test err != nil on what scanBIRDPeers returned.
ScanFailed(err) == err # ""

\* A scanner that reports the end of the stream as an error.
ErrAtEOF_Unexpected == "unexpected EOF"

\* scanner.Err() once the stream has ended: nil.
ErrAtEOF == ""

Init ==
    /\ pc = "Status"
    /\ uid \in Uids
    /\ enumerated = FALSE
    /\ \E h \in Hosts : processes = h.processes /\ procsErr = h.procsErr
    /\ out = <<>>
    /\ tables = <<>>
    /\ queries = <<>>
    /\ ipv = ""
    /\ conn = "none"
    /\ dials = <<>>
    /\ written = 0
    /\ neighbors = <<>>
    /\ stream = "none"
    /\ now = 0
    /\ deadline = 0
    /\ lastLine = 0
    /\ consumed = <<>>
    /\ peers = <<>>
    /\ ret = NoRet

\* The state a query starts from: the locals of the query are fresh, and
\* the clock counts from here.
FreshLocals ==
    /\ conn' = "none"
    /\ dials' = <<>>
    /\ written' = 0
    /\ stream' = "none"
    /\ now' = 0
    /\ deadline' = 0
    /\ lastLine' = 0
    /\ consumed' = <<>>
    /\ ret' = NoRet

\* Status calls printBIRDPeers(w, v).
EnterQuery(backend, v) ==
    /\ queries' = Append(queries, [backend |-> backend, ipv |-> v,
                                   outcome |-> "running"])
    /\ ipv' = v
    /\ neighbors' = <<>>
    /\ peers' = <<>>
    /\ FreshLocals

\* Status, from its entry to the choice of the BGP backend.
StatusStart ==
    /\ pc = "Status"
    /\ IF enforceRoot(uid) # ""
       THEN /\ out' = <<enforceRoot(uid) \o "\n">>
            /\ pc' = "Done"
            /\ UNCHANGED enumerated
       ELSE LET shown == IF procsErr THEN <<"could not read the process table\n">>
                         ELSE <<>>
            IN  /\ enumerated' = TRUE
                /\ IF /\ ~Sees(<<"calico-felix">>)
                      /\ ~Sees(<<"calico-node", "-felix">>)
                   THEN /\ out' = shown \o <<"Calico process is not running.\n">>
                        /\ pc' = "Done"
                   ELSE IF Sees(<<"bird">>) \/ Sees(<<"bird6">>)
                   THEN /\ out' = shown \o <<"Calico process is running.\n">>
                        /\ pc' = "Bird4"
                   ELSE IF Sees(<<"calico-bgp-daemon">>)
                   THEN /\ out' = shown \o <<"Calico process is running.\n">>
                        /\ pc' = "GoBGP4"
                   ELSE /\ out' = shown \o
                             <<"Calico process is running.\n",
                               "\nNone of the BGP backend processes (BIRD or GoBGP) are running.\n">>
                        /\ pc' = "Finish"
    /\ UNCHANGED <<hostVars, tables, queries, queryVars, scanVars>>

\* Status: the IPv4 half of the BIRD branch.
StatusBird4 ==
    /\ pc = "Bird4"
    /\ IF Sees(<<"bird">>)
       THEN /\ pc' = "Dial"
            /\ EnterQuery("bird", "4")
            /\ UNCHANGED out
       ELSE /\ pc' = "Bird6"
            /\ out' = Append(out, "\nINFO: BIRDv4 process: 'bird' is not running.\n")
            /\ UNCHANGED <<queries, queryVars, scanVars>>
    /\ UNCHANGED <<hostVars, enumerated, tables>>

\* Status: the IPv6 half of the BIRD branch.
StatusBird6 ==
    /\ pc = "Bird6"
    /\ IF Sees(<<"bird6">>)
       THEN /\ pc' = "Dial"
            /\ EnterQuery("bird", "6")
            /\ UNCHANGED out
       ELSE /\ pc' = "Finish"
            /\ out' = Append(out, "\nINFO: BIRDv6 process: 'bird6' is not running.\n")
            /\ UNCHANGED <<queries, queryVars, scanVars>>
    /\ UNCHANGED <<hostVars, enumerated, tables>>

\* printBIRDPeers, from its entry to the result of the first net.Dial.
DialPrimary ==
    /\ pc = "Dial"
    /\ out' = Append(out, "\nIPv" \o ipv \o " BGP status\n")
    /\ \E ok \in BOOLEAN :
        /\ dials' = Append(dials, [path |-> PrimaryPath(ipv), ok |-> ok])
        /\ IF ok
           THEN conn' = "open" /\ pc' = "Write"
           ELSE conn' = conn /\ pc' = AfterPrimaryFailure
    /\ UNCHANGED <<hostVars, enumerated, tables, queries, ipv, written, neighbors,
                   scanVars>>

\* printBIRDPeers: the second net.Dial, at the default socket location.
DialFallback ==
    /\ pc = "DialFallback"
    /\ \E ok \in BOOLEAN :
        /\ dials' = Append(dials, [path |-> FallbackPath(ipv), ok |-> ok])
        /\ IF ok
           THEN /\ conn' = "open"
                /\ pc' = "Write"
                /\ UNCHANGED <<out, queries>>
           ELSE /\ conn' = conn
                /\ out' = Append(out, "Error querying BIRD: unable to connect to BIRDv"
                                      \o ipv \o " socket: " \o ErrDial)
                /\ queries' = Outcome("connect error")
                /\ pc' = AfterBird(ipv)
    /\ UNCHANGED <<hostVars, enumerated, tables, ipv, written, neighbors, scanVars>>

\* printBIRDPeers: c.Write of the "show protocols" command.
WriteCommand ==
    /\ pc = "Write"
    /\ written' = written + 1
    /\ \E ok \in BOOLEAN :
        IF ok
        THEN /\ pc' = "ScanBegin"
             /\ UNCHANGED <<out, queries, conn>>
        ELSE /\ out' = Append(out, "Error executing command: unable to write to BIRD socket: "
                                   \o ErrWrite \o "\n")
             /\ queries' = Outcome("write error")
             /\ conn' = DeferredClose(conn)
             /\ pc' = AfterBird(ipv)
    /\ UNCHANGED <<hostVars, enumerated, tables, ipv, dials, neighbors, scanVars>>

\* scanBIRDPeers, from its entry to the first scanner.Scan().
ScanBegin ==
    /\ pc = "ScanBegin"
    /\ stream' = "open"
    /\ peers' = <<>>
    /\ consumed' = <<>>
    /\ deadline' = ReadDeadline(now)
    /\ lastLine' = now
    /\ pc' = "Scan"
    /\ UNCHANGED <<hostVars, enumerated, out, tables, queries, queryVars, now, ret>>

\* scanBIRDPeers: scanner.Scan() returns the line str, which arrives gap
\* seconds after the previous read ended and before the deadline, and the
\* loop body runs over it.  The model feeds a scan at most limit lines.
ScanLine(str, gap, limit) ==
    /\ pc = "Scan"
    /\ Len(consumed) < limit
    /\ now + gap < deadline
    /\ now' = now + gap
    /\ consumed' = Append(consumed, str)
    /\ LET s == scanStep(str, ipv, peers)
       IN  CASE s.kind = "continue" ->
                  /\ peers' = s.peers
                  /\ deadline' = ReArm(now', deadline)
                  /\ lastLine' = now'
                  /\ UNCHANGED <<pc, ret, conn, queries>>
             [] s.kind = "break" ->
                  /\ ret' = Returned(s.peers, "")
                  /\ pc' = "Return"
                  /\ UNCHANGED <<peers, deadline, lastLine, conn, queries>>
             [] s.kind = "return" ->
                  /\ ret' = Returned(s.peers, s.err)
                  /\ pc' = "Return"
                  /\ UNCHANGED <<peers, deadline, lastLine, conn, queries>>
             [] s.kind = "panic" ->
                  \* The panic unwinds printBIRDPeers, running its deferred
                  \* c.Close(), and then Status: the request is over.
                  /\ conn' = DeferredClose(conn)
                  /\ queries' = Outcome("panic")
                  /\ pc' = "Panic"
                  /\ UNCHANGED <<peers, deadline, lastLine, ret>>
    /\ UNCHANGED <<hostVars, enumerated, out, tables, ipv, dials, written, neighbors,
                   stream>>

\* scanBIRDPeers: no line arrives before the deadline; the read fails with
\* a timeout, scanner.Scan() returns false and scanner.Err() is the timeout.
ScanTimeout ==
    /\ pc = "Scan"
    /\ \E gap \in 0..MaxGap : now + gap >= deadline
    /\ now' = deadline
    /\ stream' = "silent"
    /\ ret' = Returned(peers, ErrTimeout)
    /\ pc' = "Return"
    /\ UNCHANGED <<hostVars, enumerated, out, tables, queries, queryVars, deadline,
                   lastLine, consumed, peers>>

\* scanBIRDPeers: the daemon closes the connection; scanner.Scan() returns
\* false and scanner.Err() is nil.
ScanEOF ==
    /\ pc = "Scan"
    /\ stream' = "closed"
    /\ ret' = Returned(peers, ErrAtEOF)
    /\ pc' = "Return"
    /\ UNCHANGED <<hostVars, enumerated, out, tables, queries, queryVars, now, deadline,
                   lastLine, consumed, peers>>

\* scanBIRDPeers: the read fails with an error other than a timeout.
ScanReadError ==
    /\ pc = "Scan"
    /\ stream' = "failed"
    /\ ret' = Returned(peers, ErrRead)
    /\ pc' = "Return"
    /\ UNCHANGED <<hostVars, enumerated, out, tables, queries, queryVars, now, deadline,
                   lastLine, consumed, peers>>

\* printBIRDPeers, from the return of scanBIRDPeers to its own return.
PrintReturn ==
    /\ pc = "Return"
    /\ IF ScanFailed(ret.err)
       THEN /\ out' = Append(out, "Error executing command: " \o ret.err)
            /\ queries' = Outcome(ret.err)
            /\ UNCHANGED tables
       ELSE IF NoPeers(ret.peers)
       THEN /\ out' = Append(out, "No IPv" \o ipv \o " peers found.\n")
            /\ queries' = Outcome("no peers")
            /\ UNCHANGED tables
       ELSE /\ tables' = Append(tables, ipv)
            /\ queries' = Outcome("table")
            /\ UNCHANGED out
    /\ conn' = DeferredClose(conn)
    /\ pc' = AfterBird(ipv)
    /\ UNCHANGED <<hostVars, enumerated, ipv, dials, written, neighbors, scanVars>>

\* printGoBGPPeers(w, v), whole: the client is created (or not), the
\* neighbours are listed (or not) and mapped to peers, and the peers are
\* rendered (or reported missing).
GoBGPQuery(v, next, listings) ==
    /\ pc = "GoBGP" \o v
    /\ ipv' = v
    /\ FreshLocals
    /\ \/ /\ out' = Append(out, "Error creating gobgp client: connection refused\n")
          /\ queries' = Append(queries, [backend |-> "gobgp", ipv |-> v,
                                         outcome |-> "client error"])
          /\ neighbors' = <<>>
          /\ peers' = <<>>
          /\ UNCHANGED tables
       \/ /\ out' = out \o <<"\nIPv" \o v \o " BGP status\n",
                             "Error retrieving neighbor info: rpc error\n">>
          /\ queries' = Append(queries, [backend |-> "gobgp", ipv |-> v,
                                         outcome |-> "list error"])
          /\ neighbors' = <<>>
          /\ peers' = <<>>
          /\ UNCHANGED tables
       \/ \E listed \in listings :
            LET ps == gobgpPeers(listed, UnixNow)
            IN  /\ neighbors' = listed
                /\ peers' = ps
                /\ IF NoPeers(ps)
                   THEN /\ out' = out \o <<"\nIPv" \o v \o " BGP status\n",
                                           "No IPv" \o v \o " peers found.\n">>
                        /\ queries' = Append(queries, [backend |-> "gobgp", ipv |-> v,
                                                       outcome |-> "no peers"])
                        /\ UNCHANGED tables
                   ELSE /\ out' = Append(out, "\nIPv" \o v \o " BGP status\n")
                        /\ queries' = Append(queries, [backend |-> "gobgp", ipv |-> v,
                                                       outcome |-> "table"])
                        /\ tables' = Append(tables, v)
    /\ pc' = next
    /\ UNCHANGED <<hostVars, enumerated>>

\* Status: the closing empty line.
StatusFinish ==
    /\ pc = "Finish"
    /\ out' = Append(out, "\n")
    /\ pc' = "Done"
    /\ UNCHANGED <<hostVars, enumerated, tables, queries, queryVars, scanVars>>

Next ==
    \/ StatusStart
    \/ StatusBird4
    \/ StatusBird6
    \/ DialPrimary
    \/ DialFallback
    \/ WriteCommand
    \/ ScanBegin
    \/ \E str \in Lines, gap \in 0..MaxGap : ScanLine(str, gap, MaxFeed)
    \/ ScanTimeout
    \/ ScanEOF
    \/ ScanReadError
    \/ PrintReturn
    \/ GoBGPQuery("4", "GoBGP6", SeqsUpTo(Neighbors, MaxNeighbors))
    \/ GoBGPQuery("6", "Finish", SeqsUpTo(Neighbors, MaxNeighbors))
    \/ StatusFinish

Spec == Init /\ [][Next]_vars

(***************************************************************************)
(* scanBIRDPeers in isolation: the state printBIRDPeers calls it in, on a  *)
(* host that runs only the daemon of the queried IP version, and the steps *)
(* of the scan alone.                                                      *)
(***************************************************************************)
InitScan ==
    /\ pc = "ScanBegin"
    /\ uid = 0
    /\ enumerated = TRUE
    /\ procsErr = FALSE
    /\ ipv \in {"4", "6"}
    /\ processes = IF ipv = "4" THEN <<Felix, Bird>> ELSE <<Felix, Bird6>>
    /\ out = IF ipv = "4"
             THEN <<"Calico process is running.\n", "\nIPv4 BGP status\n">>
             ELSE <<"Calico process is running.\n",
                    "\nINFO: BIRDv4 process: 'bird' is not running.\n",
                    "\nIPv6 BGP status\n">>
    /\ tables = <<>>
    /\ queries = <<[backend |-> "bird", ipv |-> ipv, outcome |-> "running"]>>
    /\ conn = "open"
    /\ dials = <<[path |-> PrimaryPath(ipv), ok |-> TRUE]>>
    /\ written = 1
    /\ neighbors = <<>>
    /\ stream = "none"
    /\ now = 0
    /\ deadline = 0
    /\ lastLine = 0
    /\ consumed = <<>>
    /\ peers = <<>>
    /\ ret = NoRet

NextScan ==
    \/ ScanBegin
    \/ \E str \in Lines, gap \in 0..MaxGap : ScanLine(str, gap, MaxLines)
    \/ ScanTimeout
    \/ ScanEOF
    \/ ScanReadError

SpecScan == InitScan /\ [][NextScan]_vars

(***************************************************************************)
(* The name decoder in isolation: a scan that reads one data row, whose    *)
(* peer name is drawn from every prefix the decoder tells apart followed   *)
(* by every short run of digits, letters and underscores.                  *)
(***************************************************************************)
TokenChars == {"1", "f", "_"}

RECURSIVE Tokens(_)
Tokens(n) ==
    IF n = 0 THEN {""}
    ELSE LET shorter == Tokens(n - 1)
         IN  shorter \cup {t \o c : t \in shorter, c \in TokenChars}

NamePrefixes ==
    {"Global_", "Node_", "Mesh_", "Peer_", "mesh_", "xMesh_", "Mesh", "_"}

PeerNames == {p \o t : p \in NamePrefixes, t \in Tokens(MaxToken)}

\* A continuation row of the protocol table for the protocol called name.
RowOf(name) == " " \o name \o " BGP master up 2016-11-21 Established"

NextDecode ==
    \/ ScanBegin
    \/ \E name \in PeerNames : ScanLine(RowOf(name), 0, 1)

SpecDecode == InitScan /\ [][NextDecode]_vars

(***************************************************************************)
(* The GoBGP queries in isolation: a request on a host that runs the GoBGP *)
(* daemon, whose listings hold one established neighbour that came up      *)
(* some days, hours, minutes and seconds before time.Now(), or (the clocks *)
(* of the daemon and of the request differing) after it.                   *)
(***************************************************************************)
Elapsed ==
    {sign * ((((days * 24) + h) * 60 + m) * 60 + sec) :
        sign \in {1, -1}, days \in (0..MaxDays) \cup {10 * MaxDays},
        h \in {0, 1, 10, 23},
        m \in {0, 1, 59}, sec \in {0, 1, 59}}

TimedNeighbors ==
    {[Description |-> "Mesh_10_0_0_1", NeighborAddress |-> "10.0.0.1",
      AdminState |-> "up", SessionState |-> "established",
      Uptime |-> UnixNow - d, Downtime |-> 0] : d \in Elapsed}

InitUptime ==
    /\ pc = "GoBGP4"
    /\ uid = 0
    /\ enumerated = TRUE
    /\ processes = <<Felix, GoBGPd>>
    /\ procsErr = TRUE
    /\ out = <<"could not read the process table\n", "Calico process is running.\n">>
    /\ tables = <<>>
    /\ queries = <<>>
    /\ ipv = ""
    /\ conn = "none"
    /\ dials = <<>>
    /\ written = 0
    /\ neighbors = <<>>
    /\ stream = "none"
    /\ now = 0
    /\ deadline = 0
    /\ lastLine = 0
    /\ consumed = <<>>
    /\ peers = <<>>
    /\ ret = NoRet

NextUptime ==
    \/ GoBGPQuery("4", "GoBGP6", {<<n>> : n \in TimedNeighbors})
    \/ GoBGPQuery("6", "Finish", {<<n>> : n \in TimedNeighbors})
    \/ StatusFinish

SpecUptime == InitUptime /\ [][NextUptime]_vars

TypeOK ==
    /\ pc \in {"Status", "Bird4", "Bird6", "Dial", "DialFallback", "Write",
               "ScanBegin", "Scan", "Return", "GoBGP4", "GoBGP6", "Finish",
               "Done", "Panic"}
    /\ conn \in {"none", "open", "closed"}
    /\ written \in 0..1
    /\ Len(consumed) <= MaxLines
    /\ processes \in {h.processes : h \in Hosts}

(***************************************************************************)
(* The response grammar as the specification words it, for stating the     *)
(* claims: the kinds of line, the text of a data row, a well-formed status *)
(* line, a conforming response.                                            *)
(***************************************************************************)
Last(q) == q[Len(q)]

IsSentinel(l) == HasPrefix(l, "0000")
IsReady(l) == HasPrefix(l, "0001")
IsHeader(l) == HasPrefix(l, "2002")
IsFirstRow(l) == HasPrefix(l, "1002")
IsNextRow(l) == HasPrefix(l, " ")
IsDataRow(l) == IsFirstRow(l) \/ IsNextRow(l)
IsUnrecognized(l) ==
    ~(IsSentinel(l) \/ IsReady(l) \/ IsHeader(l) \/ IsDataRow(l))

\* What follows the 4-digit code and its one separator (nothing, on a line
\* that ends with the code), or the leading space of a continuation row.
Remainder(l) ==
    IF IsNextRow(l) THEN SubSeq(l, 2, Len(l)) ELSE SubSeq(l, 6, Len(l))

IsConformingHeader(l) ==
    IsHeader(l) /\ Fields(Remainder(l)) = birdExpectedHeadings

IsMalformedHeader(l) ==
    IsHeader(l) /\ Fields(Remainder(l)) # birdExpectedHeadings

\* <Kind>_<address> with Kind in {Global, Node, Mesh}.
IsPeerName(name) ==
    \E kind \in {"Global", "Node", "Mesh"} :
        /\ HasPrefix(name, kind \o "_")
        /\ Len(name) > Len(kind) + 1

\* The full status-line grammar.
IsStatusLine(text) ==
    LET tokens == Fields(text)
    IN  /\ Len(tokens) >= 6
        /\ tokens[2] = "BGP"
        /\ IsPeerName(tokens[1])

\* The data rows among the lines q that satisfy the status-line grammar,
\* in the order of q.
StatusRows(q) ==
    SelectSeq(q, LAMBDA l : IsDataRow(l) /\ IsStatusLine(Remainder(l)))

\* The records of the status rows of q, in the order of q.
RecordsOf(q, v) ==
    LET rows == StatusRows(q)
    IN  [i \in 1..Len(rows) |-> unmarshalBIRD(Remainder(rows[i]), IpSep(v)).peer]

\* How far the lines q are along a conforming response: an optional 0001
\* line, a conforming 2002 header, data rows, a 0000 line.
RECURSIVE ShapeOf(_)
ShapeOf(q) ==
    IF q = <<>> THEN "start"
    ELSE LET before == ShapeOf(SubSeq(q, 1, Len(q) - 1))
             l == Last(q)
         IN  CASE before = "start" /\ IsReady(l) -> "ready"
               [] before \in {"start", "ready"} /\ IsConformingHeader(l) -> "rows"
               [] before = "rows" /\ IsDataRow(l) /\ ~IsSentinel(l) -> "rows"
               [] before = "rows" /\ IsSentinel(l) -> "end"
               [] OTHER -> "off"

ParseErrors == {ErrHeader, ErrLine}

(***************************************************************************)
(* The claims.                                                             *)
(***************************************************************************)

\* C1: a response made of an optional 0001 line, a conforming 2002 header,
\* data rows and a 0000 line is scanned to the end without a parse error or
\* a crash, and the scan returns, with no error, exactly the records of its
\* well-formed data rows, in order.
C1_ConformingResponseScanned ==
    /\ ShapeOf(consumed) # "off" =>
          /\ pc # "Panic"
          /\ ~(ret.done /\ ret.err \in ParseErrors)
    /\ ShapeOf(consumed) = "end" =>
          /\ ret.done
          /\ ret.err = ""
          /\ ret.peers = RecordsOf(consumed, ipv)

\* C2: once a 2002 line whose remainder is not the expected headings has
\* been read, the scan has returned the header-shape error and no records.
C2_MalformedHeaderIsError ==
    (consumed # <<>> /\ IsMalformedHeader(Last(consumed))) =>
        /\ ret.done
        /\ ret.err = ErrHeader
        /\ ret.peers = <<>>

\* C3: once a line with none of the known prefixes (the empty line
\* included) has been read, the scan has returned the unrecognized-line
\* error, and no records with it.
C3_UnrecognizedLineIsError ==
    (consumed # <<>> /\ IsUnrecognized(Last(consumed))) =>
        /\ pc = "Return"
        /\ ret.done
        /\ ret.err = ErrLine
        /\ ret.peers = <<>>

\* C3, witness: an empty line ended a scan that had accumulated records.
C3_Witness ==
    /\ pc = "Return"
    /\ consumed # <<>>
    /\ Last(consumed) = ""
    /\ peers # <<>>
    /\ ret.err = ErrLine

\* C4: no line makes the scanner crash.
C4_NoLineCrashes == pc # "Panic"

\* C5: a line beginning with 0000 is the last line the scan reads, and the
\* scan has then returned, with no error, the records of the rows read
\* before it.
C5_SentinelEndsScan ==
    \A i \in 1..Len(consumed) :
        IsSentinel(consumed[i]) =>
            /\ i = Len(consumed)
            /\ pc = "Return"
            /\ ret.done
            /\ ret.err = ""
            /\ ret.peers = RecordsOf(consumed, ipv)
            /\ ret.peers = peers

\* C5, witness: the sentinel ended a scan that had records and could have
\* been fed more lines.
C5_Witness ==
    /\ Len(consumed) \in 2..(MaxLines - 1)
    /\ IsSentinel(Last(consumed))
    /\ ret.done
    /\ Len(ret.peers) >= 1

\* C6: the scan has one record per data row read that satisfies the
\* status-line grammar and none for any other data row, and a data row
\* raises no error and does not end the scan.
C6_RowAppendsIffStatusLine ==
    /\ Len(peers) = Len(StatusRows(consumed))
    /\ (consumed # <<>> /\ IsDataRow(Last(consumed))) =>
          /\ pc # "Panic"
          /\ ~(ret.done /\ ret.err \in ParseErrors)

\* C7: the deadline in force for a read is the time of the last processed
\* line (or of the start of the scan) plus the timeout; a scan times out
\* only after a silence of at least the timeout; and a silence that reaches
\* the timeout ends the scan with the timeout error.
C7_DeadlineReArmed ==
    /\ [](pc = "Scan" => deadline = lastLine + birdTimeOut)
    /\ []((ret.done /\ ret.err = ErrTimeout) => now - lastLine >= birdTimeOut)
    /\ [][(pc = "Scan" /\ now' - lastLine >= birdTimeOut)
            => (ret'.done /\ ret'.err = ErrTimeout)]_vars

\* C7, witness: a scan that ran for longer than the timeout, line after
\* line, and then timed out on a silence.
C7_Witness ==
    /\ ret.done
    /\ ret.err = ErrTimeout
    /\ lastLine > birdTimeOut
    /\ Len(consumed) >= 3

\* The query in progress, or the last one run.
LastQuery == queries[Len(queries)]
InBird == pc \in {"Dial", "DialFallback", "Write", "ScanBegin", "Scan", "Return"}
Connected == \E i \in 1..Len(dials) : dials[i].ok
BirdReturned ==
    /\ queries # <<>>
    /\ LastQuery.backend = "bird"
    /\ ~InBird

\* C8: a connection that was established is closed once printBIRDPeers has
\* returned, however it returned, and is not closed while printBIRDPeers is
\* still writing, scanning or handling the result of the scan.
C8_ConnectionClosedOnExit ==
    /\ (BirdReturned /\ Connected) => conn = "closed"
    /\ InBird => conn # "closed"
    /\ (InBird /\ Connected) => conn = "open"

\* C8, witness: the query connected on the fallback path, timed out, and
\* returned with the connection closed.
C8_Witness ==
    /\ pc = "Bird6"
    /\ Len(dials) = 2
    /\ LastQuery.outcome = ErrTimeout
    /\ conn = "closed"

\* C9: a query dials at most twice, the fallback path only after the primary
\* one failed and then exactly once; when both fail the connection error is
\* reported and nothing is written or read; when one succeeds the command
\* is written once, before any line is read.
C9_OneFallbackOneCommand ==
    /\ Len(dials) <= 2
    /\ dials # <<>> => dials[1].path = PrimaryPath(ipv)
    /\ Len(dials) = 2 => (~dials[1].ok /\ dials[2].path = FallbackPath(ipv))
    /\ (dials # <<>> /\ ~dials[1].ok /\ pc # "DialFallback") => Len(dials) = 2
    /\ (Len(dials) = 2 /\ ~Connected) =>
          /\ written = 0
          /\ consumed = <<>>
          /\ ~ret.done
          /\ LastQuery.outcome = "connect error"
          /\ \E i \in 1..Len(out) :
                out[i] = "Error querying BIRD: unable to connect to BIRDv"
                         \o ipv \o " socket: " \o ErrDial
    /\ written <= 1
    /\ written = 1 => Connected
    /\ (Connected /\ pc # "Write") => written = 1
    /\ (consumed # <<>> \/ ret.done \/ pc \in {"ScanBegin", "Scan", "Return"})
          => written = 1

\* C9, witness: the primary dial failed, the fallback succeeded, the command
\* was written and lines were read.
C9_Witness ==
    /\ Len(dials) = 2
    /\ Connected
    /\ written = 1
    /\ Len(consumed) >= 2

\* The request went down the BIRD branch of Status.
TookBirdPath ==
    /\ uid = 0
    /\ Sees(<<"calico-felix">>) \/ Sees(<<"calico-node", "-felix">>)
    /\ Sees(<<"bird">>) \/ Sees(<<"bird6">>)

\* C10: in the BIRD path, a finished request has attempted the IPv6 query
\* whenever bird6 was seen running, whatever the IPv4 query came to.
C10_IPv6AlwaysAttempted ==
    (/\ pc \in {"Done", "Panic"}
     /\ TookBirdPath
     /\ Sees(<<"bird6">>))
        => \E i \in 1..Len(queries) :
              queries[i].backend = "bird" /\ queries[i].ipv = "6"

\* The elements of the sequence q.
Range(q) == {q[i] : i \in 1..Len(q)}

NoPeersMessage(v) == "No IPv" \o v \o " peers found.\n"

\* The latest query has finished with no error: the scan of a BIRD query
\* returned nil, the client of a GoBGP query listed the neighbours.
FinishedWithoutError ==
    /\ queries # <<>>
    /\ LastQuery.outcome # "running"
    /\ IF LastQuery.backend = "bird"
       THEN ~InBird /\ ret.done /\ ret.err = ""
       ELSE LastQuery.outcome \notin {"client error", "list error"}

\* The records the latest query came to.
QueryRecords == IF LastQuery.backend = "bird" THEN ret.peers ELSE peers

\* C11: a query, of BIRD or of GoBGP, that finished without error and with
\* zero records wrote the "No IPv<n> peers found" message and rendered no
\* table; a table is rendered only for a non-empty record sequence.
C11_NoTableForNoPeers ==
    /\ (FinishedWithoutError /\ QueryRecords = <<>>) =>
          /\ NoPeersMessage(ipv) \in Range(out)
          /\ ipv \notin Range(tables)
    /\ (queries # <<>> /\ ipv \in Range(tables)) =>
          /\ FinishedWithoutError
          /\ QueryRecords # <<>>

\* C11, witness: a BIRD response of a header, a row that is no BGP row and
\* the sentinel was scanned to no records, and the message was written.
C11_Witness ==
    /\ queries # <<>>
    /\ LastQuery.backend = "bird"
    /\ FinishedWithoutError
    /\ Len(consumed) = 2
    /\ IsDataRow(consumed[1])
    /\ IsSentinel(consumed[2])
    /\ ret.peers = <<>>
    /\ Last(out) = NoPeersMessage(ipv)
    /\ tables = <<>>

\* The command line cmds has at least Len(expected) tokens, and they are
\* the tokens of expected, one by one.
LeadingTokensEqual(expected, cmds) ==
    /\ Len(cmds) >= Len(expected)
    /\ \A i \in 1..Len(expected) : cmds[i] = expected[i]

\* The command lines Status looks for.
ExpectedArgvs ==
    {<<"calico-felix">>, <<"calico-node", "-felix">>, <<"bird">>, <<"bird6">>,
     <<"calico-bgp-daemon">>}

\* C12: once the request has matched the process table, psContains has
\* answered true for an expected command line if and only if some process
\* has a command line whose leading tokens equal it element-wise.
C12_PsContainsLeadingTokens ==
    enumerated =>
        \A expected \in ExpectedArgvs :
            psContains(expected, processes) <=>
                \E k \in 1..Len(processes) :
                    /\ ~processes[k].err
                    /\ LeadingTokensEqual(expected, processes[k].cmds)

\* C13: a request of a user other than root has written the privilege
\* error and nothing else, and has done nothing else: it has not listed the
\* processes, dialled a BIRD socket or run a query, and it is over.
C13_UnprivilegedDoesNothing ==
    (uid # 0 /\ pc # "Status") =>
        /\ pc = "Done"
        /\ out = <<"Need super user privileges: Operation not permitted\n">>
        /\ ~enumerated
        /\ dials = <<>>
        /\ conn = "none"
        /\ written = 0
        /\ queries = <<>>
        /\ neighbors = <<>>
        /\ tables = <<>>

\* C13, witness: a request of an unprivileged user is over, on a host whose
\* process table would have made a privileged request query BIRD.
C13_Witness ==
    /\ uid # 0
    /\ pc = "Done"
    /\ Len(out) = 1
    /\ psContains(<<"bird">>, processes)

\* name is <kind>_<token> with a non-empty token.
IsKindName(name, kind) ==
    /\ HasPrefix(name, kind \o "_")
    /\ Len(name) > Len(kind) + 1

\* What follows the underscore of a name of that kind.
TokenOf(name, kind) == SubSeq(name, Len(kind) + 2, Len(name))

DisplayType(kind) ==
    CASE kind = "Global" -> "global"
      [] kind = "Node" -> "node specific"
      [] kind = "Mesh" -> "node-to-node mesh"

\* The delimiter of the address family.
Delimiter(v) == CASE v = "4" -> "." [] v = "6" -> ":"

\* addr is token with every underscore replaced by delim, and nothing else
\* changed.
UnderscoresReplaced(token, delim, addr) ==
    /\ Len(addr) = Len(token)
    /\ \A i \in 1..Len(token) :
          SubSeq(addr, i, i) = IF SubSeq(token, i, i) = "_" THEN delim
                               ELSE SubSeq(token, i, i)
    /\ \A i \in 1..Len(addr) : SubSeq(addr, i, i) # "_"

\* C14: the row of a peer called <Kind>_<token>, Kind being Global, Node or
\* Mesh and the token non-empty, decodes to one record with the display
\* type of the Kind and the token as its address, every underscore replaced
\* by the delimiter of the address family; the row of a peer with any other
\* name decodes to no record.
C14_NameDecoding ==
    \A name \in PeerNames :
        consumed = <<RowOf(name)>> =>
            IF \E kind \in {"Global", "Node", "Mesh"} : IsKindName(name, kind)
            THEN \A kind \in {"Global", "Node", "Mesh"} :
                    IsKindName(name, kind) =>
                        /\ Len(peers) = 1
                        /\ peers[1].PeerType = DisplayType(kind)
                        /\ UnderscoresReplaced(TokenOf(name, kind),
                                               Delimiter(ipv), peers[1].PeerIP)
            ELSE peers = <<>>

\* C14, witness: the IPv6 row of the peer Global___1 decoded to the global
\* peer ::1.
C14_Witness ==
    /\ ipv = "6"
    /\ consumed = <<RowOf("Global___1")>>
    /\ Len(peers) = 1
    /\ peers[1].PeerType = "global"
    /\ peers[1].PeerIP = "::1"

Digits == "0123456789"

IsDigits(s) ==
    /\ s # ""
    /\ \A i \in 1..Len(s) : \E k \in 1..Len(Digits) :
          SubSeq(s, i, i) = SubSeq(Digits, k, k)

\* The number a string of decimal digits denotes.
RECURSIVE NumberOf(_)
NumberOf(s) ==
    IF s = "" THEN 0
    ELSE NumberOf(SubSeq(s, 1, Len(s) - 1)) * 10
         + ((CHOOSE k \in 1..Len(Digits) :
                SubSeq(Digits, k, k) = SubSeq(s, Len(s), Len(s))) - 1)

\* str is HH:MM:SS, two digits each.
IsClock(str, hours, mins, secs) ==
    /\ Len(str) = 8
    /\ SubSeq(str, 3, 3) = ":"
    /\ SubSeq(str, 6, 6) = ":"
    /\ IsDigits(SubSeq(str, 1, 2)) /\ NumberOf(SubSeq(str, 1, 2)) = hours
    /\ IsDigits(SubSeq(str, 4, 5)) /\ NumberOf(SubSeq(str, 4, 5)) = mins
    /\ IsDigits(SubSeq(str, 7, 8)) /\ NumberOf(SubSeq(str, 7, 8)) = secs

\* str is [Nd ]HH:MM:SS for the n >= 0 seconds: the fields are those of n,
\* and the day prefix is there exactly when n holds a whole day.
Renders(str, n) ==
    LET N == n \div 86400
        k == Len(str) - 8
    IN  /\ k >= 0
        /\ IsClock(SubSeq(str, k + 1, Len(str)),
                   (n \div 3600) % 24, (n \div 60) % 60, n % 60)
        /\ IF N > 0
           THEN /\ k >= 3
                /\ SubSeq(str, k - 1, k) = "d "
                /\ IsDigits(SubSeq(str, 1, k - 2))
                /\ SubSeq(str, 1, 1) # "0"
                /\ NumberOf(SubSeq(str, 1, k - 2)) = N
           ELSE k = 0

\* A listing of one established neighbour has been mapped to its peer.
OneTimedPeer ==
    /\ Len(neighbors) = 1
    /\ Len(peers) = 1
    /\ neighbors[1].SessionState = "established"
    /\ neighbors[1].Uptime # 0

\* The second-count formatTimedelta was given for that neighbour.
Given == UnixNow - neighbors[1].Uptime

Magnitude(d) == IF d < 0 THEN 0 - d ELSE d

\* C15: formatTimedelta renders a second-count d >= 0 as [Nd ]HH:MM:SS with
\* the seconds d mod 60, the minutes (d div 60) mod 60, the hours
\* (d div 3600) mod 24 and the prefix N = d div 86400 exactly when N > 0,
\* and renders a negative d as it renders -d: the sign is not shown.
C15_TimedeltaOfMagnitude ==
    OneTimedPeer => Renders(peers[1].Since, Magnitude(Given))

\* C15 as it was stated: the fields as above for d >= 0, and a negative d
\* rendered to another string than its absolute value.
C15_TimedeltaSigned ==
    OneTimedPeer =>
        /\ Given >= 0 => Renders(peers[1].Since, Given)
        /\ Given < 0 => ~Renders(peers[1].Since, 0 - Given)

\* C15, witness: a neighbour that will have come up 90000 seconds after
\* time.Now() is shown as up since 1d 01:00:00.
C15_Witness ==
    /\ OneTimedPeer
    /\ Given = 0 - 90000
    /\ peers[1].Since = "1d 01:00:00"

\* The lines the daemon may send, by what the grammar makes of them.
ConformingHeaders == {l \in Lines : IsConformingHeader(l)}
MalformedHeaders == {l \in Lines : IsMalformedHeader(l)}
StatusRowLines == {l \in Lines : IsDataRow(l) /\ IsStatusLine(Remainder(l))}

\* The record of each status row, for either address family.
RecordOfRow ==
    [v \in {"4", "6"} |->
        [l \in StatusRowLines |-> unmarshalBIRD(Remainder(l), IpSep(v)).peer]]

\* A conforming 2002 header is among the first n lines of q.
HeaderWithin(q, n) == \E j \in 1..n : q[j] \in ConformingHeaders

\* How many of the lines q are status rows.
StatusRowCount(q) == Cardinality({i \in 1..Len(q) : q[i] \in StatusRowLines})

\* C16: every 2002 line is checked, the first of a scan or not: a 2002 line
\* whose remainder is not the expected headings, read after a conforming
\* header has been checked, ends the scan abnormally all the same, with the
\* header-shape error and no records or, the line ending at its code, with
\* the crash.
C16_EveryHeaderChecked ==
    (/\ consumed # <<>>
     /\ Last(consumed) \in MalformedHeaders
     /\ HeaderWithin(consumed, Len(consumed) - 1))
        => \/ pc = "Panic"
           \/ /\ ret.done
              /\ ret.err = ErrHeader
              /\ ret.peers = <<>>

\* C16 as it was stated: once one 2002 line has been checked, a later 2002
\* line does not make the scan return the header-shape error.
C16_HeaderCheckedOnce ==
    (/\ consumed # <<>>
     /\ IsHeader(Last(consumed))
     /\ \E j \in 1..(Len(consumed) - 1) : IsHeader(consumed[j]))
        => ~(ret.done /\ ret.err = ErrHeader)

\* C16, witness: a malformed header that is no bare code followed a
\* conforming one and a row, and the scan returned the header-shape error.
C16_Witness ==
    /\ Len(consumed) = 3
    /\ IsConformingHeader(consumed[1])
    /\ IsDataRow(consumed[2])
    /\ IsMalformedHeader(consumed[3])
    /\ Len(consumed[3]) > 5
    /\ ret.done
    /\ ret.err = ErrHeader

\* The records of the status rows of q that follow a conforming header.
RECURSIVE RecordsAfterHeader(_, _)
RecordsAfterHeader(q, v) ==
    IF q = <<>> THEN <<>>
    ELSE LET front == SubSeq(q, 1, Len(q) - 1)
             l == Last(q)
         IN  IF /\ HeaderWithin(front, Len(front))
                /\ l \in StatusRowLines
             THEN Append(RecordsAfterHeader(front, v), RecordOfRow[v][l])
             ELSE RecordsAfterHeader(front, v)

\* The scan has returned without error.
Succeeded == ret.done /\ ret.err = ""

\* C17: a successful scan returns one record for every data row that
\* satisfies the status-line grammar, a conforming header having preceded
\* the row or not: the rows read before any header contribute their
\* records like the others.
C17_HeaderlessRowsCount ==
    Succeeded =>
        /\ Len(ret.peers) = StatusRowCount(consumed)
        /\ \A i \in 1..Len(consumed) :
              (/\ consumed[i] \in StatusRowLines
               /\ ~HeaderWithin(consumed, i - 1))
                  => RecordOfRow[ipv][consumed[i]] \in Range(ret.peers)

\* C17 as it was stated: a successful scan returns the records of the data
\* rows that a conforming header preceded, and no others.
C17_RecordsFollowHeader ==
    Succeeded => ret.peers = RecordsAfterHeader(consumed, ipv)

\* C17, witness: a scan that read a status row and the sentinel, and no
\* header, returned the record of the row.
C17_Witness ==
    /\ Succeeded
    /\ Len(consumed) = 2
    /\ consumed[1] \in StatusRowLines
    /\ IsSentinel(consumed[2])
    /\ Len(ret.peers) = 1

\* C18: when the daemon has closed the connection before any 0000 line,
\* and no read has failed or timed out, the scan has returned the records
\* accumulated so far, one per status row read, with no error: what the
\* 0000 line would have made it return after the same rows.
C18_EndOfStreamIsSuccess ==
    stream = "closed" =>
        /\ \A i \in 1..Len(consumed) : ~IsSentinel(consumed[i])
        /\ pc = "Return"
        /\ ret.done
        /\ ret.err = ""
        /\ ret.peers = peers
        /\ Len(ret.peers) = StatusRowCount(consumed)

\* C18, witness: the connection was closed after a header and two rows, one
\* of them a status row, and the scan returned the record of that row.
C18_Witness ==
    /\ stream = "closed"
    /\ Len(consumed) = 3
    /\ IsConformingHeader(consumed[1])
    /\ Len(ret.peers) = 1
    /\ ret.err = ""

\* The scan ended with a parse error, a read error or a read timeout.
ScanEndedInError ==
    /\ ret.done
    /\ \/ stream \in {"silent", "failed"}
       \/ /\ consumed # <<>>
          /\ IsUnrecognized(Last(consumed)) \/ IsMalformedHeader(Last(consumed))

\* C19: a BIRD query whose scan ended with a parse error, a read error or
\* a read timeout has written the error message and rendered no table,
\* whatever records the scan had accumulated; a query that rendered a
\* table had a scan that ended without error.
C19_NoTableAfterScanError ==
    /\ (BirdReturned /\ ScanEndedInError) =>
          /\ ret.err # ""
          /\ ("Error executing command: " \o ret.err) \in Range(out)
          /\ ipv \notin Range(tables)
    /\ (BirdReturned /\ ipv \in Range(tables)) =>
          /\ ret.done
          /\ ret.err = ""

\* C19, witness: a scan timed out with a record accumulated, and the query
\* returned without a table.
C19_Witness ==
    /\ BirdReturned
    /\ stream = "silent"
    /\ peers # <<>>
    /\ ret.peers # <<>>
    /\ tables = <<>>
    /\ Last(out) = "Error executing command: " \o ErrTimeout

\* C20: a request runs at most two queries, the IPv4 one first and over
\* before the IPv6 one starts, all against one backend; it queries GoBGP
\* only when it saw neither bird nor bird6, and it runs no query when it
\* did not see the Calico process.
C20_TwoQueriesOneBackend ==
    /\ Len(queries) <= 2
    /\ \A i \in 1..Len(queries) : queries[i].ipv \in {"4", "6"}
    /\ Len(queries) = 2 =>
          /\ queries[1].ipv = "4"
          /\ queries[2].ipv = "6"
          /\ queries[1].outcome # "running"
          /\ queries[1].backend = queries[2].backend
    /\ (\E i \in 1..Len(queries) : queries[i].backend = "gobgp") =>
          /\ ~psContains(<<"bird">>, processes)
          /\ ~psContains(<<"bird6">>, processes)
    /\ (/\ ~psContains(<<"calico-felix">>, processes)
        /\ ~psContains(<<"calico-node", "-felix">>, processes)) =>
          queries = <<>>

\* C20, witness: a request has run the two GoBGP queries and is over.
C20_Witness ==
    /\ pc = "Done"
    /\ Len(queries) = 2
    /\ queries[1].backend = "gobgp"
    /\ queries[2].backend = "gobgp"
=============================================================================
